---- MODULE Spec2Model ----
(***************************************************************************)
(* Model of llm_autom_reply.py: the email pipeline                         *)
(*   _validate_email -> classify_email -> generate_response ->             *)
(*   _send_response                                                        *)
(* driven by process_email, and the batch loop of run_demonstration.       *)
(*                                                                         *)
(* Python values are tagged records [t, v]: t is the Python type, v the    *)
(* characters of a str (a sequence of one-character strings; empty for     *)
(* the other types).  The module is read as Python >= 3.12, where the      *)
(* nested quotes of f"...{email["id"]}" are legal.                         *)
(***************************************************************************)
EXTENDS Integers, Sequences, FiniteSets, TLC

\* ------------------------------------------------------------------ bounds
\* Largest batch handed to run_demonstration's loop.
MaxBatch == 2
\* Longest generated `from` string (the shortest string email_ex matches
\* has six characters).
MaxAddrLen == 6

\* ------------------------------------------------------------ Python values
Str(s) == [t |-> "str", v |-> s]
None == [t |-> "NoneType", v |-> <<>>]
True == [t |-> "bool", v |-> <<"True">>]
False == [t |-> "bool", v |-> <<"False">>]
Int42 == [t |-> "int", v |-> <<>>]
Raised(e) == [t |-> "raised", v |-> <<e>>]

UpperLetters == <<"A", "B", "C", "D", "E", "F", "G", "H", "I", "J", "K", "L", "M", "N", "O", "P", "Q", "R", "S", "T", "U", "V", "W", "X", "Y", "Z">>
LowerLetters == <<"a", "b", "c", "d", "e", "f", "g", "h", "i", "j", "k", "l", "m", "n", "o", "p", "q", "r", "s", "t", "u", "v", "w", "x", "y", "z">>
DigitChars == <<"0", "1", "2", "3", "4", "5", "6", "7", "8", "9">>

Range(f) == {f[i] : i \in DOMAIN f}
Letters == Range(UpperLetters) \cup Range(LowerLetters)
Digits == Range(DigitChars)
\* str.strip() with no argument removes whitespace.
Whitespace == {" ", "\t", "\n", "\f"}

IndexOf(seq, c) == CHOOSE i \in DOMAIN seq : seq[i] = c

\* str.lower(), character by character.
LowerChar(c) == IF c \in Range(UpperLetters) THEN LowerLetters[IndexOf(UpperLetters, c)] ELSE c

\* Mutant: a lower() that leaves the text as it is.
LowerUnchanged(s) == s

Lower(s) == [i \in DOMAIN s |-> LowerChar(s[i])]

\* str.strip(): drop leading and trailing whitespace.
Strip(s) ==
  LET keep == {i \in DOMAIN s : s[i] \notin Whitespace}
  IN IF keep = {} THEN <<>>
     ELSE LET lo == CHOOSE i \in keep : \A j \in keep : i <= j
              hi == CHOOSE i \in keep : \A j \in keep : j <= i
          IN SubSeq(s, lo, hi)

\* ------------------------------------------------- _validate_email: regex
\* email_ex = [a-zA-Z0-9.*%±]+@[a-zA-Z0-9.-]+.[a-zA-Z]{2,}   (line 153)
LocalClass == Letters \cup Digits \cup {".", "*", "%", "±"}
DomainClass == Letters \cup Digits \cup {".", "-"}

\* email_ex.match(s): the pattern matches a prefix of s.  The `.` before the
\* last group is unescaped: any character but a newline.
email_ex_match(s) ==
  \E i \in 1..Len(s), j \in 1..Len(s) :
    /\ i + 2 <= j
    /\ j + 3 <= Len(s)
    /\ \A k \in 1..i : s[k] \in LocalClass
    /\ s[i + 1] = "@"
    /\ \A k \in (i + 2)..j : s[k] \in DomainClass
    /\ s[j + 1] # "\n"
    /\ s[j + 2] \in Letters
    /\ s[j + 3] \in Letters

\* ---------------------------------------------- _validate_email: strptime
DigitVal(c) == IndexOf(DigitChars, c) - 1
NonZero == Digits \ {"0"}

\* The fields of "%Y-%m-%dT%H:%M:%SZ" as _strptime's regular expressions:
\* %Y \d\d\d\d, %m 1[0-2]|0[1-9]|[1-9], %d 3[0-1]|[1-2]\d|0[1-9]|[1-9]| [1-9],
\* %H 2[0-3]|[0-1]\d|\d, %M [0-5]\d|\d, %S 6[0-1]|[0-5]\d|\d.
YearField(f) == Len(f) = 4 /\ \A k \in 1..4 : f[k] \in Digits
MonthField(f) ==
  \/ Len(f) = 2 /\ f[1] = "1" /\ f[2] \in {"0", "1", "2"}
  \/ Len(f) = 2 /\ f[1] = "0" /\ f[2] \in NonZero
  \/ Len(f) = 1 /\ f[1] \in NonZero
DayField(f) ==
  \/ Len(f) = 2 /\ f[1] = "3" /\ f[2] \in {"0", "1"}
  \/ Len(f) = 2 /\ f[1] \in {"1", "2"} /\ f[2] \in Digits
  \/ Len(f) = 2 /\ f[1] \in {"0", " "} /\ f[2] \in NonZero
  \/ Len(f) = 1 /\ f[1] \in NonZero
HourField(f) ==
  \/ Len(f) = 2 /\ f[1] = "2" /\ f[2] \in {"0", "1", "2", "3"}
  \/ Len(f) = 2 /\ f[1] \in {"0", "1"} /\ f[2] \in Digits
  \/ Len(f) = 1 /\ f[1] \in Digits
MinuteField(f) ==
  \/ Len(f) = 2 /\ f[1] \in {"0", "1", "2", "3", "4", "5"} /\ f[2] \in Digits
  \/ Len(f) = 1 /\ f[1] \in Digits
SecondField(f) ==
  \/ Len(f) = 2 /\ f[1] = "6" /\ f[2] \in {"0", "1"}
  \/ MinuteField(f)

\* int() of a matched field (a leading space of %d is skipped).
RECURSIVE FieldVal(_)
FieldVal(f) ==
  IF f = <<>> THEN 0
  ELSE IF f[1] = " " THEN FieldVal(Tail(f))
  ELSE LET n == Len(f) IN FieldVal(SubSeq(f, 1, n - 1)) * 10 + DigitVal(f[n])

IsLeap(y) == y % 4 = 0 /\ (y % 100 # 0 \/ y % 400 = 0)
DaysInMonth(y, m) ==
  IF m = 2 THEN (IF IsLeap(y) THEN 29 ELSE 28)
  ELSE IF m \in {4, 6, 9, 11} THEN 30 ELSE 31

\* datetime.strptime(s, "%Y-%m-%dT%H:%M:%SZ") returns (TRUE) or raises
\* ValueError (FALSE).  The format's regular expression is compiled with
\* IGNORECASE and must match the whole string; the datetime constructor then
\* rejects year 0, a day past the end of the month and a second above 59.
strptime_ok(s) ==
  \E lm \in 1..2, ld \in 1..2, lH \in 1..2, lM \in 1..2, lS \in 1..2 :
    LET pm == 6
        pd == pm + lm + 1
        pH == pd + ld + 1
        pM == pH + lH + 1
        pS == pM + lM + 1
        pZ == pS + lS
        fY == SubSeq(s, 1, 4)
        fm == SubSeq(s, pm, pm + lm - 1)
        fd == SubSeq(s, pd, pd + ld - 1)
        fH == SubSeq(s, pH, pH + lH - 1)
        fM == SubSeq(s, pM, pM + lM - 1)
        fS == SubSeq(s, pS, pS + lS - 1)
    IN /\ Len(s) = pZ
       /\ YearField(fY) /\ s[5] = "-"
       /\ MonthField(fm) /\ s[pd - 1] = "-"
       /\ DayField(fd) /\ s[pH - 1] \in {"T", "t"}
       /\ HourField(fH) /\ s[pM - 1] = ":"
       /\ MinuteField(fM) /\ s[pS - 1] = ":"
       /\ SecondField(fS) /\ s[pZ] \in {"Z", "z"}
       /\ FieldVal(fY) >= 1
       /\ FieldVal(fd) <= DaysInMonth(FieldVal(fY), FieldVal(fm))
       /\ FieldVal(fS) <= 59

\* ---------------------------------------------------------------- strings
InvalidFormatPhrase == <<"E", "m", "a", "i", "l", " ", "i", "n", " ", "i", "n", "v", "a", "l", "i", "d", " ", "f", "o", "r", "m", "a", "t", ".">>
ClassificationErrorPhrase == <<"E", "m", "a", "i", "l", " ", "c", "l", "a", "s", "s", "i", "f", "i", "c", "a", "t", "i", "o", "n", " ", "e", "r", "r", "o", "r", ".">>
GenerationErrorPhrase == <<"R", "e", "s", "p", "o", "n", "s", "e", " ", "g", "e", "n", "e", "r", "a", "t", "i", "o", "n", " ", "e", "r", "r", "o", "r", ".">>
\* The default of email.get("id", "Uknown"), spelled as the source spells it.
Uknown == <<"U", "k", "n", "o", "w", "n">>
complaint == <<"c", "o", "m", "p", "l", "a", "i", "n", "t">>
inquiry == <<"i", "n", "q", "u", "i", "r", "y">>
feedback == <<"f", "e", "e", "d", "b", "a", "c", "k">>
support_request == <<"s", "u", "p", "p", "o", "r", "t", "_", "r", "e", "q", "u", "e", "s", "t">>
other == <<"o", "t", "h", "e", "r">>

\* self.valid_categories (lines 65-68).
valid_categories == {complaint, inquiry, feedback, support_request, other}
\* The keys of dict_prompt (lines 107-113).
dict_prompt_keys == {Str(complaint), Str(inquiry), Str(feedback), Str(support_request), Str(other)}

\* Mutant: `subject` forgotten in the set of mandatory keys.
mandatory_keys_without_subject == {"id", "from", "body", "timestamp"}

\* mandatory_keys (lines 143-146).
mandatory_keys == {"id", "from", "subject", "body", "timestamp"}

\* ----------------------------------------------------------- the pipeline
\* Mutant: no stage outcome counts as a failure.
FalsyNever(x) == FALSE

\* Mutant: an empty string does not count as a failure.
FalsyNoneOnly(x) == x.t = "NoneType" \/ (x.t = "bool" /\ x = False)

\* Python's `not x` for the values the pipeline tests (lines 178, 186, 194).
Falsy(x) ==
  \/ x.t = "NoneType"
  \/ x.t = "bool" /\ x = False
  \/ x.t = "str" /\ x.v = <<>>

\* _validate_email(email): True, False, or the exception that escapes.
\* email_ex.match raises TypeError on a value that is not a str, outside any
\* try; strptime's TypeError and ValueError (and a KeyError of
\* email["timestamp"]) are caught by `except Exception`.
_validate_email(email) ==
  IF ~(mandatory_keys \subseteq DOMAIN email) THEN False
  ELSE IF "from" \notin DOMAIN email THEN Raised("KeyError")
  ELSE IF email["from"].t # "str" THEN Raised("TypeError")
  ELSE IF ~email_ex_match(email["from"].v) THEN False
  ELSE IF "timestamp" \notin DOMAIN email THEN False
  ELSE IF email["timestamp"].t # "str" THEN False
  ELSE IF strptime_ok(email["timestamp"].v) THEN True ELSE False

\* The prompt of classify_email reads email["body"] and email["subject"]
\* before the try (lines 75-84).
classify_prompt_ok(email) == {"body", "subject"} \subseteq DOMAIN email

\* Mutant: a failed remote call classified as `other`.
classify_email_failure_as_other(email, completion) ==
  IF ~classify_prompt_ok(email) THEN Raised("KeyError")
  ELSE IF completion.t # "str" THEN Str(other)
  ELSE LET classification == Lower(Strip(completion.v))
       IN IF classification \in valid_categories THEN Str(classification) ELSE Str(other)

\* classify_email(email), given what the remote call produced: the text of
\* completions.choices[0].message.content (a str), None (no text: .strip()
\* raises AttributeError) or an exception of the client.  The handler logs
\* email["id"] and returns None.
classify_email(email, completion) ==
  IF ~classify_prompt_ok(email) THEN Raised("KeyError")
  ELSE IF completion.t # "str"
    THEN (IF "id" \in DOMAIN email THEN None ELSE Raised("KeyError"))
  ELSE LET classification == Lower(Strip(completion.v))
       IN IF classification \in valid_categories THEN Str(classification) ELSE Str(other)

\* The prompt of generate_response reads email["body"] and
\* dict_prompt[classification] before the try (lines 114-116).
generate_prompt_ok(email, classification) ==
  "body" \in DOMAIN email /\ classification \in dict_prompt_keys

\* generate_response(email, classification), given what the remote call
\* produced.
generate_response(email, classification, completion) ==
  IF ~generate_prompt_ok(email, classification) THEN Raised("KeyError")
  ELSE IF completion.t # "str"
    THEN (IF "id" \in DOMAIN email THEN None ELSE Raised("KeyError"))
  ELSE Str(Strip(completion.v))

\* The four dictionaries process_email returns (lines 179-204).
InvalidResult(email) ==
  [email_id |-> IF "id" \in DOMAIN email THEN email["id"] ELSE Str(Uknown),
   success |-> FALSE, classification |-> Str(InvalidFormatPhrase), response_sent |-> None]
ClassificationErrorResult(email) ==
  [email_id |-> email["id"],
   success |-> FALSE, classification |-> Str(ClassificationErrorPhrase), response_sent |-> None]
GenerationErrorResult(email) ==
  [email_id |-> email["id"],
   success |-> FALSE, classification |-> Str(GenerationErrorPhrase), response_sent |-> None]

\* Mutant: the success result reports the reply where the category belongs.
SuccessResultSwapped(email, cls, resp) ==
  [email_id |-> email["id"],
   success |-> TRUE, classification |-> resp, response_sent |-> cls]

SuccessResult(email, cls, resp) ==
  [email_id |-> email["id"],
   success |-> TRUE, classification |-> cls, response_sent |-> resp]

\* ------------------------------------------------------------------ inputs
\* Email records: functions from the field names present to Python values.
Fields == {"id", "from", "subject", "body", "timestamp"}
GoodFrom == Str(<<"a", ".", "b", "@", "e", "x", ".", "c", "o", "m">>)
GoodTimestamp == Str(<<"2", "0", "2", "4", "-", "0", "3", "-", "1", "5", "T", "1", "0", ":", "3", "0", ":", "0", "0", "Z">>)
Id001 == Str(<<"0", "0", "1">>)
Id002 == Str(<<"0", "0", "2">>)

EmailRecord(present, id, from, timestamp) ==
  LET all == [id |-> id, from |-> from, subject |-> Str(<<"H", "i">>),
              body |-> Str(<<"R", "e">>), timestamp |-> timestamp]
  IN [f \in present |-> all[f]]

\* Values of `from`: addresses, strings that are no address, values that
\* are no string.
FromValues ==
  {GoodFrom, Int42, None,
   Str(<<"n", "o", "t", "-", "a", "n", "-", "e", "m", "a", "i", "l">>),
   Str(<<"a", "_", "b", "@", "e", "x", ".", "c", "o", "m">>),
   Str(<<"a", "+", "b", "@", "e", "x", ".", "c", "o", "m">>),
   Str(<<"a", "-", "b", "@", "e", "x", ".", "c", "o", "m">>),
   Str(<<"a", "*", "b", "@", "e", "x", ".", "c", "o", "m">>),
   Str(<<"a", "@", "e", "x", "x", "c", "o", "m">>),
   Str(<<"a", "@", "e", "x", ".", "c", "o", "m", "!">>),
   Str(<<"a", "@", "b", ".", "c">>),
   Str(<<>>)}

\* Values of `timestamp`.
TimestampValues ==
  {GoodTimestamp, Int42,
   Str(<<"2", "0", "2", "4", "-", "0", "3", "-", "1", "5">>),
   Str(<<"2", "0", "2", "4", "-", "0", "3", "-", "1", "5", " ", "1", "0", ":", "3", "0", ":", "0", "0">>),
   Str(<<"2", "0", "2", "4", "-", "3", "-", "5", "T", "1", ":", "2", ":", "3", "Z">>),
   Str(<<"2", "0", "2", "4", "-", "0", "2", "-", "3", "0", "T", "1", "0", ":", "3", "0", ":", "0", "0", "Z">>),
   Str(<<"2", "0", "2", "4", "-", "0", "3", "-", "1", "5", "t", "1", "0", ":", "3", "0", ":", "0", "0", "z">>)}

\* Every string of at most MaxAddrLen characters over a small alphabet.
AddrAlphabet == {"a", "@", ".", "_"}
GeneratedAddresses == UNION {[1..n -> AddrAlphabet] : n \in 0..MaxAddrLen}

\* The records process_email is called with directly.
DirectEmails ==
  {EmailRecord(present, Id001, from, ts) :
     present \in SUBSET Fields, from \in FromValues, ts \in TimestampValues}
  \cup {EmailRecord(Fields, Id001, Str(a), GoodTimestamp) : a \in GeneratedAddresses}

\* The records a batch is made of.
BatchEmails ==
  {EmailRecord(Fields, Id001, GoodFrom, GoodTimestamp),
   EmailRecord(Fields, Id002, GoodFrom, GoodTimestamp),
   EmailRecord(Fields \ {"id"}, Id001, GoodFrom, GoodTimestamp),
   EmailRecord(Fields, Id002, Str(<<"n", "o", "t", "-", "a", "n", "-", "e", "m", "a", "i", "l">>), GoodTimestamp),
   EmailRecord(Fields, Id001, Int42, GoodTimestamp)}
Batches == UNION {[1..n -> BatchEmails] : n \in 0..MaxBatch}

\* What the remote service sends back to classify_email: a word, in some
\* casing, between some whitespace.
UpperChar(c) == IF c \in Range(LowerLetters) THEN UpperLetters[IndexOf(LowerLetters, c)] ELSE c
Upper(s) == [i \in DOMAIN s |-> UpperChar(s[i])]
Capitalize(s) == [i \in DOMAIN s |-> IF i = 1 THEN UpperChar(s[i]) ELSE s[i]]
Cased(w, casing) ==
  IF casing = "upper" THEN Upper(w) ELSE IF casing = "capitalize" THEN Capitalize(w) ELSE w
Casings == {"lower", "upper", "capitalize"}
ReplyWords ==
  valid_categories \cup
  {<<>>, <<"u", "n", "s", "u", "r", "e">>,
   <<"s", "u", "p", "p", "o", "r", "t", " ", "r", "e", "q", "u", "e", "s", "t">>,
   <<"c", "o", "m", "p", "l", "a", "i", "n", "t", ".">>}
PadsLeft == {<<>>, <<" ">>}
PadsRight == {<<>>, <<" ", "\n">>}
Decorated(w, casing, l, r) == l \o Cased(w, casing) \o r
\* Each reply text, with the word it was built from.
DecoratedWords ==
  {<<Decorated(w, c, l, r), w>> : w \in ReplyWords, c \in Casings, l \in PadsLeft, r \in PadsRight}
ClassifyTexts == {d[1] : d \in DecoratedWords}
\* What the remote service sends back to generate_response.
GenerateTexts ==
  {<<"S", "o", "r", "r", "y", ".">>, <<" ", "S", "o", "r", "r", "y", ".", "\n">>,
   <<>>, <<" ", "\n">>}
\* client.chat.completions.create raises, returns a message without text,
\* or returns text.
APIError == Raised("APIError")
ClassifyOutcomes == {APIError, None} \cup {Str(x) : x \in ClassifyTexts}
GenerateOutcomes == {APIError, None} \cup {Str(x) : x \in GenerateTexts}

\* ------------------------------------------------------------------- state
VARIABLES
  mode,            \* "batch": run_demonstration; "direct": one call of process_email
  emails,          \* the batch (sample_emails), or the one record of a direct call
  idx,             \* the position of the email being processed (0 before the first)
  pc,              \* where control is
  classification,  \* process_email's local
  response,        \* process_email's local
  reply,           \* what the last remote call produced
  ret,             \* <<>> or <<the dictionary process_email returned>>
  results,         \* run_demonstration's list
  trace,           \* the stages called for the current email, with what each returned
  remote,          \* remote calls made for the current email
  sent,            \* the calls of _send_response for the current email
  exc              \* the exception that escaped, if one did

vars == <<mode, emails, idx, pc, classification, response, reply, ret, results, trace, remote, sent, exc>>

Unbound == [t |-> "unbound", v |-> <<>>]
NoException == [type |-> "", in |-> ""]
Exception(type, where) == [type |-> type, in |-> where]

Init ==
  /\ \/ mode = "batch" /\ emails \in Batches /\ pc = "loop"
     \/ mode = "direct" /\ emails \in {<<e>> : e \in DirectEmails} /\ pc = "start"
  /\ idx = 0
  /\ classification = Unbound
  /\ response = Unbound
  /\ reply = Unbound
  /\ ret = <<>>
  /\ results = <<>>
  /\ trace = <<>>
  /\ remote = 0
  /\ sent = <<>>
  /\ exc = NoException

Called(stage, out) == [stage |-> stage, out |-> out]

\* run_demonstration, lines 218-219: the next email of the batch; the log
\* line reads email['id'].
LoopStep ==
  /\ mode = "batch" /\ pc = "loop" /\ idx < Len(emails)
  /\ IF "id" \notin DOMAIN emails[idx + 1]
       THEN /\ pc' = "raised"
            /\ exc' = Exception("KeyError", "run_demonstration")
            /\ UNCHANGED idx
       ELSE /\ idx' = idx + 1
            /\ pc' = "call"
            /\ UNCHANGED exc
  /\ UNCHANGED <<mode, emails, classification, response, reply, ret, results, trace, remote, sent>>

\* A caller hands one record to process_email (line 171).
DirectCall ==
  /\ mode = "direct" /\ pc = "start"
  /\ idx' = 1
  /\ pc' = "call"
  /\ UNCHANGED <<mode, emails, classification, response, reply, ret, results, trace, remote, sent, exc>>

\* process_email, lines 178-182.
Validate ==
  /\ pc = "call"
  /\ LET email == emails[idx]
         valid == _validate_email(email)
     IN /\ trace' = Append(trace, Called("_validate_email", valid))
        /\ IF valid.t = "raised"
             THEN /\ pc' = "raised"
                  /\ exc' = Exception(valid.v[1], "_validate_email")
                  /\ UNCHANGED ret
             ELSE IF Falsy(valid)
               THEN /\ ret' = <<InvalidResult(email)>>
                    /\ pc' = "returned"
                    /\ UNCHANGED exc
               ELSE /\ pc' = "classify"
                    /\ UNCHANGED <<ret, exc>>
  /\ UNCHANGED <<mode, emails, idx, classification, response, reply, results, remote, sent>>

\* process_email, lines 185-190.
Classify ==
  /\ pc = "classify"
  /\ \E completion \in ClassifyOutcomes :
       LET email == emails[idx]
           out == classify_email(email, completion)
           requested == classify_prompt_ok(email)
       IN /\ trace' = Append(trace, Called("classify_email", out))
          /\ remote' = IF requested THEN remote + 1 ELSE remote
          /\ reply' = IF requested THEN completion ELSE reply
          /\ IF out.t = "raised"
               THEN /\ pc' = "raised"
                    /\ exc' = Exception(out.v[1], "classify_email")
                    /\ UNCHANGED <<classification, ret>>
               ELSE /\ classification' = out
                    /\ IF Falsy(out)
                         THEN IF "id" \in DOMAIN email
                                THEN /\ ret' = <<ClassificationErrorResult(email)>>
                                     /\ pc' = "returned"
                                     /\ UNCHANGED exc
                                ELSE /\ pc' = "raised"
                                     /\ exc' = Exception("KeyError", "process_email")
                                     /\ UNCHANGED ret
                         ELSE /\ pc' = "generate"
                              /\ UNCHANGED <<ret, exc>>
  /\ UNCHANGED <<mode, emails, idx, response, results, sent>>

\* process_email, lines 193-198.
Generate ==
  /\ pc = "generate"
  /\ \E completion \in GenerateOutcomes :
       LET email == emails[idx]
           out == generate_response(email, classification, completion)
           requested == generate_prompt_ok(email, classification)
       IN /\ trace' = Append(trace, Called("generate_response", out))
          /\ remote' = IF requested THEN remote + 1 ELSE remote
          /\ reply' = IF requested THEN completion ELSE reply
          /\ IF out.t = "raised"
               THEN /\ pc' = "raised"
                    /\ exc' = Exception(out.v[1], "generate_response")
                    /\ UNCHANGED <<response, ret>>
               ELSE /\ response' = out
                    /\ IF Falsy(out)
                         THEN IF "id" \in DOMAIN email
                                THEN /\ ret' = <<GenerationErrorResult(email)>>
                                     /\ pc' = "returned"
                                     /\ UNCHANGED exc
                                ELSE /\ pc' = "raised"
                                     /\ exc' = Exception("KeyError", "process_email")
                                     /\ UNCHANGED ret
                         ELSE /\ pc' = "send"
                              /\ UNCHANGED <<ret, exc>>
  /\ UNCHANGED <<mode, emails, idx, classification, results, sent>>

\* process_email, lines 200-204: _send_response (lines 166-169) logs the
\* dispatch, then the success dictionary is returned.
Send ==
  /\ pc = "send"
  /\ LET email == emails[idx]
     IN IF "id" \in DOMAIN email
          THEN /\ sent' = Append(sent, [email_id |-> email["id"], response |-> response])
               /\ trace' = Append(trace, Called("_send_response", None))
               /\ ret' = <<SuccessResult(email, classification, response)>>
               /\ pc' = "returned"
               /\ UNCHANGED exc
          ELSE /\ pc' = "raised"
               /\ exc' = Exception("KeyError", "process_email")
               /\ UNCHANGED <<sent, trace, ret>>
  /\ UNCHANGED <<mode, emails, idx, classification, response, reply, results, remote>>

\* run_demonstration, lines 220-221: results.append(result).  The frame of
\* process_email is gone, and with it what is recorded about the call.
AppendResult ==
  /\ mode = "batch" /\ pc = "returned"
  /\ results' = Append(results, ret[1])
  /\ pc' = "loop"
  /\ classification' = Unbound
  /\ response' = Unbound
  /\ reply' = Unbound
  /\ ret' = <<>>
  /\ trace' = <<>>
  /\ remote' = 0
  /\ sent' = <<>>
  /\ UNCHANGED <<mode, emails, idx, exc>>

\* run_demonstration, lines 224-228: the loop is over; the summary frame is
\* built and its four columns selected.  A frame built from an empty list
\* has no columns, and selecting them raises KeyError.
Summary ==
  /\ mode = "batch" /\ pc = "loop" /\ idx = Len(emails)
  /\ IF results = <<>>
       THEN /\ pc' = "raised"
            /\ exc' = Exception("KeyError", "summary")
       ELSE /\ pc' = "done"
            /\ UNCHANGED exc
  /\ UNCHANGED <<mode, emails, idx, classification, response, reply, ret, results, trace, remote, sent>>

Next ==
  \/ LoopStep
  \/ DirectCall
  \/ Validate
  \/ Classify
  \/ Generate
  \/ Send
  \/ AppendResult
  \/ Summary

Spec == Init /\ [][Next]_vars

\* ------------------------------------------------------------------ claims
\* The email being processed, and what its stages returned.
Email == emails[idx]
StageCalled(k, stage) == Len(trace) >= k /\ trace[k].stage = stage
SpecificCategories == {complaint, inquiry, feedback, support_request}
Unknown == <<"U", "n", "k", "n", "o", "w", "n">>

\* C1: for every batch of N records, whatever the remote service does and
\* whichever records fail validation (a record without `id` included), the
\* loop of run_demonstration over process_email completes with exactly N
\* results, the i-th being the outcome of the i-th email; no email aborts
\* the batch or is dropped.
ClaimC1_BatchCompletes ==
  mode = "batch" =>
    /\ pc = "raised" => exc.in = "summary"
    /\ (pc \in {"done", "raised"} \/ (pc = "loop" /\ idx = Len(emails))) =>
         /\ Len(results) = Len(emails)
         /\ \A i \in 1..Len(emails) :
              /\ "id" \in DOMAIN emails[i] => results[i].email_id = emails[i]["id"]
              /\ _validate_email(emails[i]) # True =>
                   results[i].classification = Str(InvalidFormatPhrase)

\* C2: process_email is fail-fast in the order Validator, Classifier,
\* Responder, Notifier: classify_email is called only after _validate_email
\* returned True, generate_response only after classify_email returned a
\* category, _send_response only after generate_response returned a string;
\* a rejected email causes no remote call and a failed classification
\* exactly one.
ThmC2_FailFast ==
  /\ \A k \in DOMAIN trace :
       /\ trace[k].stage = "_validate_email" => k = 1
       /\ trace[k].stage = "classify_email" =>
            k = 2 /\ trace[1] = Called("_validate_email", True)
       /\ trace[k].stage = "generate_response" =>
            k = 3 /\ trace[2].stage = "classify_email" /\ trace[2].out \in dict_prompt_keys
       /\ trace[k].stage = "_send_response" =>
            k = 4 /\ trace[3].stage = "generate_response" /\ trace[3].out.t = "str"
  /\ StageCalled(1, "_validate_email") /\ trace[1].out # True =>
       remote = 0 /\ Len(trace) = 1
  /\ StageCalled(2, "classify_email") /\ trace[2].out = None =>
       remote = 1 /\ Len(trace) = 2

\* Witness of C2: a classification failed, process_email returned, and one
\* remote call was made.
WitC2_ClassificationFailedOneCall ==
  /\ pc = "returned"
  /\ trace = <<Called("_validate_email", True), Called("classify_email", None)>>
  /\ remote = 1

ThmC4_MissingFieldInvalid ==
  (idx >= 1 /\ ~(Fields \subseteq DOMAIN Email)) =>
    /\ trace \in {<<>>, <<Called("_validate_email", False)>>}
    /\ pc \notin {"classify", "generate", "send"}
    /\ pc = "raised" => exc.in \in {"run_demonstration", "summary"}
    /\ pc = "returned" =>
         /\ trace # <<>>
         /\ Len(ret) = 1
         /\ ret[1].success = FALSE
         /\ ret[1].classification = Str(InvalidFormatPhrase)
         /\ ret[1].response_sent = None

\* Witness of C4: a record without `subject`, whose `from` is no string, has
\* been answered by process_email.
WitC4_NoSubjectBadFrom ==
  /\ pc = "returned"
  /\ DOMAIN Email = Fields \ {"subject"}
  /\ Email["from"] = Int42
  /\ ret # <<>>

\* C5: for a valid email whose classification call fails (the client raises,
\* or no text can be read from the response), classify_email returns None,
\* not `other`, without raising, and process_email returns success=false,
\* classification="Email classification error.", response_sent=None.
ThmC5_ClassificationFailure ==
  (Len(trace) = 2 /\ trace[2].stage = "classify_email" /\ reply.t # "str") =>
    /\ trace[1] = Called("_validate_email", True)
    /\ trace[2].out = None
    /\ classification = None
    /\ pc = "returned"
    /\ ret = <<[email_id |-> Email["id"], success |-> FALSE,
                classification |-> Str(ClassificationErrorPhrase), response_sent |-> None]>>

\* Witness of C5: the response to the classification request held no text.
WitC5_NoTextInResponse ==
  /\ pc = "returned"
  /\ Len(trace) = 2 /\ trace[2].stage = "classify_email"
  /\ reply = None

\* C6 as claimed: after a successful classification, process_email notifies
\* and succeeds iff generate_response returned a string, whichever string
\* the trimmed remote reply is; exactly when it returned None the result is
\* success=false, classification="Response generation error.",
\* response_sent=None.
ClaimC6_AnyStringSucceeds ==
  (pc = "returned" /\ StageCalled(3, "generate_response")) =>
    /\ (ret[1].success /\ sent # <<>>) <=> trace[3].out.t = "str"
    /\ (ret[1] = [email_id |-> Email["id"], success |-> FALSE,
                  classification |-> Str(GenerationErrorPhrase), response_sent |-> None])
         <=> trace[3].out = None

\* C6 as amended: process_email notifies and succeeds iff generate_response
\* returned a non-empty string; when it returned None, or the empty string
\* (a remote reply that is empty or all whitespace), the result is
\* success=false, classification="Response generation error.",
\* response_sent=None, and the category is not reported.
ThmC6_NonEmptyStringSucceeds ==
  (pc = "returned" /\ StageCalled(3, "generate_response")) =>
    /\ (ret[1].success /\ sent # <<>>) <=> (trace[3].out.t = "str" /\ trace[3].out.v # <<>>)
    /\ (ret[1] = [email_id |-> Email["id"], success |-> FALSE,
                  classification |-> Str(GenerationErrorPhrase), response_sent |-> None])
         <=> (trace[3].out = None \/ trace[3].out = Str(<<>>))
    /\ ret[1].success \/ ret[1].classification # trace[2].out

\* Witness of C6: the remote reply was all whitespace, and the email ended
\* as a generation error.
WitC6_BlankReplyIsFailure ==
  /\ pc = "returned"
  /\ StageCalled(3, "generate_response")
  /\ reply = Str(<<" ", "\n">>)
  /\ trace[3].out = Str(<<>>)
  /\ ret[1].classification = Str(GenerationErrorPhrase)

\* C7: for every text the remote service returns to classify_email, the
\* result is the word of the text, whatever its casing and surrounding
\* whitespace, when that word is complaint, inquiry, feedback or
\* support_request, and `other` for every other text (the empty one and
\* verbose or garbled ones included); it is never None, and the pipeline
\* goes on to response generation.
ThmC7_Normalisation ==
  (Len(trace) = 2 /\ trace[2].stage = "classify_email" /\ reply.t = "str") =>
    /\ \A d \in DecoratedWords :
         reply.v = d[1] =>
           trace[2].out = Str(IF d[2] \in SpecificCategories THEN d[2] ELSE other)
    /\ trace[2].out \in dict_prompt_keys
    /\ classification = trace[2].out
    /\ pc = "generate"

\* Witness of C7: " COMPLAINT \n" was classified as complaint.
WitC7_UpperPaddedComplaint ==
  /\ pc = "generate"
  /\ reply = Str(Decorated(complaint, "upper", <<" ">>, <<" ", "\n">>))
  /\ classification = Str(complaint)

\* C8: for every record handed to _validate_email (any fields present, any
\* values, a `from` or `timestamp` that is no string included) the call
\* returns True or False and no exception escapes it.
ClaimC8_ValidateNeverRaises ==
  /\ \A k \in DOMAIN trace :
       trace[k].stage = "_validate_email" => trace[k].out \in {True, False}
  /\ ~(pc = "raised" /\ exc.in = "_validate_email")

\* The address pattern as the specification words it: local part of letters,
\* digits, `.`, `_`, `%`, `+`, `-`; `@`; domain of letters, digits, `.`, `-`;
\* a literal period; at least two letters.  Matched, like the code's, from
\* the start of the string.
SpecLocalClass == Letters \cup Digits \cup {".", "_", "%", "+", "-"}
SpecAddressMatch(s) ==
  \E i \in 1..Len(s), j \in 1..Len(s) :
    /\ i + 2 <= j
    /\ j + 3 <= Len(s)
    /\ \A k \in 1..i : s[k] \in SpecLocalClass
    /\ s[i + 1] = "@"
    /\ \A k \in (i + 2)..j : s[k] \in DomainClass
    /\ s[j + 1] = "."
    /\ s[j + 2] \in Letters
    /\ s[j + 3] \in Letters
\* YYYY-MM-DDTHH:MM:SSZ of a real date and time.
WellFormedTimestamp(x) ==
  x.t = "str" /\ Len(x.v) = Len(GoodTimestamp.v) /\ strptime_ok(x.v) /\ " " \notin Range(x.v)
    /\ "t" \notin Range(x.v) /\ "z" \notin Range(x.v)

\* C9: for every record with all five fields and a well-formed timestamp,
\* _validate_email returns True iff `from` matches the address pattern of
\* the specification.
ClaimC9_AddressPattern ==
  (/\ StageCalled(1, "_validate_email")
   /\ Fields \subseteq DOMAIN Email
   /\ Email["from"].t = "str"
   /\ WellFormedTimestamp(Email["timestamp"])) =>
    (trace[1].out = True <=> SpecAddressMatch(Email["from"].v))

\* C10: in every result process_email returns, email_id is the email's `id`
\* when it has one and "Unknown" when it has none.
ClaimC10_EmailId ==
  pc = "returned" =>
    ret[1].email_id = (IF "id" \in DOMAIN Email THEN Email["id"] ELSE Str(Unknown))
====
